---- MODULE Spec2Model ----
(***************************************************************************)
(* A model of src/todoapp.js: the in-memory task list `tasks`, the         *)
(* localStorage slot it is saved to, the rendered pending/completed lists  *)
(* with the closures their handlers hold, the displayed counts, and one    *)
(* action per event handler of the page.                                   *)
(*                                                                         *)
(* JS strings are sequences of one-character tokens; a JSON text is the    *)
(* sequence of its tokens.  null is the value NULL, which no timestamp     *)
(* equals (timestamps are Date.now() values, all positive).                *)
(***************************************************************************)
EXTENDS Integers, Sequences, FiniteSets, TLC

VARIABLES
    tasks,      \* the value of `let tasks` (line 32): the array's elements, or a string's characters
    tasksKind,  \* the runtime type of that value: "array", or what JSON.parse returned instead
    storage,    \* localStorage: a function from keys to JSON texts
    quotaFull,  \* environment: localStorage.setItem throws QuotaExceededError while TRUE
    dom,        \* the <li> children of pending-list and completed-list
    counts,     \* the text of count-total / count-pending / count-completed
    now,        \* the clock read by Date.now()
    failures,   \* how many storage writes have thrown so far
    last,       \* the event handled last: its input, the id it closed over, how it ended
    tab2        \* a second tab on the same origin: whether it is open, and its own `tasks`

vars == <<tasks, tasksKind, storage, quotaFull, dom, counts, now, failures, last, tab2>>

---------------------------------------------------------------------------
(* Bounds *)

MaxTasks == 2   \* submit is not offered beyond this many tasks
MaxTime == 2    \* the clock stops here
MaxFails == 2   \* no more than this many storage writes throw

---------------------------------------------------------------------------
(* Values *)

STORAGE_KEY == "todo.tasks.v1"

NULL == -1

\* the texts typed into the form or an edit box: empty, whitespace only,
\* plain, and padded on either side
Inputs ==
    { <<>>, <<" ">>, <<" ", " ">>, <<"a">>, <<"a", "a">>, <<" ", "a">>, <<"a", " ">> }

\* the digits Math.random() contributes to an id.  One draw is sampled: tasks
\* added at different times get different ids, tasks added within the same
\* millisecond share one.
RandomDraws == {"k"}

IsSpace(c) == c = " "

RECURSIVE TrimStart(_)
TrimStart(s) ==
    IF s # <<>> /\ IsSpace(Head(s)) THEN TrimStart(Tail(s)) ELSE s

RECURSIVE TrimEnd(_)
TrimEnd(s) ==
    IF s # <<>> /\ IsSpace(s[Len(s)]) THEN TrimEnd(SubSeq(s, 1, Len(s) - 1)) ELSE s

\* mutants of Trim: .trim() forgotten; .trimStart() written for .trim()
NoTrim(s) == s

TrimLeadingOnly(s) == TrimStart(s)

\* String.prototype.trim
Trim(s) == TrimEnd(TrimStart(s))

\* uid(): eight base-36 digits of Math.random() followed by the last four
\* base-36 digits of Date.now()
uid(rnd, t) == <<rnd, ToString(t % (36 * 36 * 36 * 36))>>

NewTask(id, text, t) ==
    [id |-> id, text |-> text, createdAt |-> t, completed |-> FALSE, completedAt |-> NULL]

\* mutant of Unshift: push written for unshift
Push(list, t) == Append(list, t)

\* Array.prototype.unshift
Unshift(list, t) == <<t>> \o list

\* Array.prototype.findIndex with t => t.id === id; 0 stands for -1
RECURSIVE FindFrom(_, _, _)
FindFrom(list, id, i) ==
    IF i > Len(list) THEN 0
    ELSE IF list[i].id = id THEN i
    ELSE FindFrom(list, id, i + 1)

\* mutant of findIndex: a miss is clamped to the first element
findIndexOrFirst(list, id) ==
    IF FindFrom(list, id, 1) = 0 /\ list # <<>> THEN 1 ELSE FindFrom(list, id, 1)

findIndex(list, id) == FindFrom(list, id, 1)

\* { ...task, ...patch }
Spread(task, patch) ==
    [k \in DOMAIN task \cup DOMAIN patch |->
        IF k \in DOMAIN patch THEN patch[k] ELSE task[k]]

\* mutant of TogglePatch: the branches of the conditional are swapped
TogglePatchInverted(checked, t) ==
    [completed |-> checked, completedAt |-> IF checked THEN NULL ELSE t]

\* mutant of TogglePatch: completedAt is stamped whichever way the box went
TogglePatchAlwaysStamps(checked, t) == [completed |-> checked, completedAt |-> t]

\* the patch built by the checkbox's change handler
TogglePatch(checked, t) ==
    [completed |-> checked, completedAt |-> IF checked THEN t ELSE NULL]

TextPatch(newText) == [text |-> newText]

\* mutant of RemoveId: === written for !==
RemoveIdInverted(list, id) == SelectSeq(list, LAMBDA t : t.id = id)

\* tasks.filter(t => t.id !== id)
RemoveId(list, id) == SelectSeq(list, LAMBDA t : t.id # id)

\* tasks.filter(t => !t.completed) and tasks.filter(t => t.completed)
PendingOf(list) == SelectSeq(list, LAMBDA t : ~t.completed)

CompletedOf(list) == SelectSeq(list, LAMBDA t : t.completed)

---------------------------------------------------------------------------
(* JSON.stringify(tasks) *)

Q == "\""

\* a string literal; the alphabet holds no character that JSON escapes
JSONstring(s) == <<Q>> \o s \o <<Q>>

JSONnumber(n) == IF n = NULL THEN "null" ELSE ToString(n)

JSONboolean(b) == IF b THEN "true" ELSE "false"

\* mutant of JSONobject: an absent completedAt held as undefined, which
\* JSON.stringify leaves out
JSONobjectDropsAbsent(t) ==
    <<"{">> \o JSONstring(<<"id">>) \o <<":">> \o JSONstring(t.id)
    \o <<",">> \o JSONstring(<<"text">>) \o <<":">> \o JSONstring(t.text)
    \o <<",">> \o JSONstring(<<"createdAt">>) \o <<":", JSONnumber(t.createdAt)>>
    \o <<",">> \o JSONstring(<<"completed">>) \o <<":", JSONboolean(t.completed)>>
    \o (IF t.completedAt = NULL THEN <<>>
        ELSE <<",">> \o JSONstring(<<"completedAt">>) \o <<":", JSONnumber(t.completedAt)>>)
    \o <<"}">>

\* own properties in insertion order: id, text, createdAt, completed, completedAt
JSONobject(t) ==
    <<"{">> \o JSONstring(<<"id">>) \o <<":">> \o JSONstring(t.id)
    \o <<",">> \o JSONstring(<<"text">>) \o <<":">> \o JSONstring(t.text)
    \o <<",">> \o JSONstring(<<"createdAt">>) \o <<":", JSONnumber(t.createdAt)>>
    \o <<",">> \o JSONstring(<<"completed">>) \o <<":", JSONboolean(t.completed)>>
    \o <<",">> \o JSONstring(<<"completedAt">>) \o <<":", JSONnumber(t.completedAt)>>
    \o <<"}">>

RECURSIVE JSONelements(_)
JSONelements(list) ==
    IF list = <<>> THEN <<>>
    ELSE IF Len(list) = 1 THEN JSONobject(list[1])
    ELSE JSONobject(Head(list)) \o <<",">> \o JSONelements(Tail(list))

JSONstringify(list) == <<"[">> \o JSONelements(list) \o <<"]">>

\* JSON.stringify(tasks, null, 2): a line break and two spaces per level
\* before every element, member and closing bracket, a space after a colon
Indent(n) == <<"\n">> \o [i \in 1..n |-> " "]

JSONmember(level, key, value) ==
    Indent(2 * level) \o JSONstring(<<key>>) \o <<":", " ">> \o value

JSONobjectIndented(t) ==
    <<"{">> \o JSONmember(2, "id", JSONstring(t.id))
    \o <<",">> \o JSONmember(2, "text", JSONstring(t.text))
    \o <<",">> \o JSONmember(2, "createdAt", <<JSONnumber(t.createdAt)>>)
    \o <<",">> \o JSONmember(2, "completed", <<JSONboolean(t.completed)>>)
    \o <<",">> \o JSONmember(2, "completedAt", <<JSONnumber(t.completedAt)>>)
    \o Indent(2) \o <<"}">>

RECURSIVE JSONelementsIndented(_)
JSONelementsIndented(list) ==
    IF list = <<>> THEN <<>>
    ELSE Indent(2) \o JSONobjectIndented(Head(list))
         \o (IF Tail(list) = <<>> THEN <<>> ELSE <<",">> \o JSONelementsIndented(Tail(list)))

JSONstringifyIndented(list) ==
    IF list = <<>> THEN <<"[", "]">>
    ELSE <<"[">> \o JSONelementsIndented(list) \o Indent(0) \o <<"]">>

---------------------------------------------------------------------------
(* JSON.parse(raw) *)

NumberTokens == 0..(MaxTime + 1)

IsNumberToken(tok) == \E n \in NumberTokens : ToString(n) = tok

NumberOf(tok) == CHOOSE n \in NumberTokens : ToString(n) = tok

SyntaxError == [ok |-> FALSE]

Parsed(type, val, next) == [ok |-> TRUE, type |-> type, val |-> val, next |-> next]

\* the position of the first quote at or after i; 0 if there is none
RECURSIVE CloseQuote(_, _)
CloseQuote(toks, i) ==
    IF i > Len(toks) THEN 0
    ELSE IF toks[i] = Q THEN i
    ELSE CloseQuote(toks, i + 1)

RECURSIVE ParseValue(_, _)
RECURSIVE ParseElements(_, _, _)
RECURSIVE ParseMembers(_, _, _)

ParseValue(toks, i) ==
    IF i > Len(toks) THEN SyntaxError
    ELSE LET tok == toks[i] IN
        CASE tok = "null" -> Parsed("null", NULL, i + 1)
          [] tok = "true" -> Parsed("boolean", TRUE, i + 1)
          [] tok = "false" -> Parsed("boolean", FALSE, i + 1)
          [] tok = Q ->
                LET j == CloseQuote(toks, i + 1) IN
                IF j = 0 THEN SyntaxError
                ELSE Parsed("string", SubSeq(toks, i + 1, j - 1), j + 1)
          [] tok = "[" ->
                IF i + 1 <= Len(toks) /\ toks[i + 1] = "]"
                THEN Parsed("array", <<>>, i + 2)
                ELSE ParseElements(toks, i + 1, <<>>)
          [] tok = "{" ->
                IF i + 1 <= Len(toks) /\ toks[i + 1] = "}"
                THEN Parsed("object", <<>>, i + 2)
                ELSE ParseMembers(toks, i + 1, <<>>)
          [] OTHER ->
                IF IsNumberToken(tok) THEN Parsed("number", NumberOf(tok), i + 1)
                ELSE SyntaxError

ParseElements(toks, i, acc) ==
    LET v == ParseValue(toks, i) IN
    IF ~v.ok \/ v.next > Len(toks) THEN SyntaxError
    ELSE IF toks[v.next] = "," THEN ParseElements(toks, v.next + 1, Append(acc, v.val))
    ELSE IF toks[v.next] = "]" THEN Parsed("array", Append(acc, v.val), v.next + 1)
    ELSE SyntaxError

\* a member is a one-word key, a colon and a value; a repeated key keeps the later value
ParseMembers(toks, i, acc) ==
    IF i + 3 > Len(toks) \/ toks[i] # Q \/ toks[i + 2] # Q \/ toks[i + 3] # ":"
    THEN SyntaxError
    ELSE LET v == ParseValue(toks, i + 4) IN
        IF ~v.ok \/ v.next > Len(toks) THEN SyntaxError
        ELSE LET obj == (toks[i + 1] :> v.val) @@ acc IN
            IF toks[v.next] = "," THEN ParseMembers(toks, v.next + 1, obj)
            ELSE IF toks[v.next] = "}" THEN Parsed("object", obj, v.next + 1)
            ELSE SyntaxError

JSONparse(raw) ==
    LET r == ParseValue(raw, 1) IN
    IF r.ok /\ r.next = Len(raw) + 1 THEN r ELSE SyntaxError

---------------------------------------------------------------------------
(* localStorage *)

EmptyStorage == [k \in {} |-> <<>>]

setItem(st, key, value) ==
    [k \in DOMAIN st \cup {key} |-> IF k = key THEN value ELSE st[k]]

\* loadTasks(): the list, or whatever else JSON.parse returned
loadTasks(st) ==
    IF STORAGE_KEY \notin DOMAIN st \/ st[STORAGE_KEY] = <<>>
    THEN [kind |-> "array", val |-> <<>>]
    ELSE LET r == JSONparse(st[STORAGE_KEY]) IN
        IF ~r.ok THEN [kind |-> "array", val |-> <<>>]
        ELSE IF r.type \in {"array", "string"} THEN [kind |-> r.type, val |-> r.val]
        ELSE [kind |-> r.type, val |-> <<>>]

---------------------------------------------------------------------------
(* Rendering *)

\* renderItem(task): the <li>, the task its handlers close over, its checkbox
renderItem(t) == [task |-> t, checked |-> t.completed]

RenderList(list) == [i \in 1..Len(list) |-> renderItem(list[i])]

EmptyDom == [pending |-> <<>>, completed |-> <<>>]

\* render(): both lists rebuilt from tasks
render(list) ==
    [pending |-> RenderList(PendingOf(list)), completed |-> RenderList(CompletedOf(list))]

\* mutant of updateCounts: the ! of the pending filter is missing
updateCountsUnnegated(list) ==
    LET total == Len(list)
        pending == Len(CompletedOf(list))
    IN [total |-> total, pending |-> pending, completed |-> total - pending]

\* updateCounts()
updateCounts(list) ==
    LET total == Len(list)
        pending == Len(PendingOf(list))
    IN [total |-> total, pending |-> pending, completed |-> total - pending]

\* the counters as the document ships them, before any updateCounts()
NotPainted == <<>>

Lists == {"pending", "completed"}

NoId == <<>>

NoInput == <<>>

\* What the model remembers of the event handled last: the handler, how it
\* ended, the id its closure held, whether a task had that id when the
\* handler started, and the text that was typed.
Event(op, outcome, id, input) ==
    [op |-> op, outcome |-> outcome, id |-> id,
     known |-> (id # NoId /\ \E i \in 1..Len(tasks) : tasks[i].id = id),
     input |-> input]

\* the completion fields of a task, as a toggle finds them
Stamp(t) == [completed |-> t.completed, completedAt |-> t.completedAt]

NoStamp == <<>>

\* What is remembered of a change of a checkbox: the state the box went to,
\* the completion fields the task had when the handler started, and those it
\* had before the preceding event when that was a toggle of the same id.
ToggleEvent(id, checked) ==
    LET idx == findIndex(tasks, id) IN
    Event("toggle", "ok", id, NoInput)
    @@ [checked |-> checked,
        was |-> IF idx = 0 THEN NoStamp ELSE Stamp(tasks[idx]),
        earlier |-> IF last.op = "toggle" /\ last.outcome = "ok" /\ last.id = id
                    THEN last.was ELSE NoStamp]

---------------------------------------------------------------------------
(* The script's top level: tasks = loadTasks(), the listeners, render() *)

\* the state the script leaves when it has run against storage st
Startup(st) ==
    LET loaded == loadTasks(st) IN
    IF loaded.kind = "array"
    THEN [tasks |-> loaded.val, tasksKind |-> "array", dom |-> render(loaded.val),
          counts |-> updateCounts(loaded.val),
          last |-> Event("load", "ok", NoId, NoInput)]
    ELSE \* render() throws at tasks.filter: nothing is painted
         [tasks |-> loaded.val, tasksKind |-> loaded.kind, dom |-> EmptyDom,
          counts |-> NotPainted,
          last |-> Event("load", "TypeError", NoId, NoInput)]

\* the second tab before it is opened
Tab2Closed == [open |-> FALSE, tasks |-> <<>>]

StartedOn(st) ==
    LET s == Startup(st) IN
    /\ storage = st
    /\ tasks = s.tasks
    /\ tasksKind = s.tasksKind
    /\ dom = s.dom
    /\ counts = s.counts
    /\ last = s.last
    /\ quotaFull = FALSE
    /\ now = 1
    /\ failures = 0
    /\ tab2 = Tab2Closed

\* a first visit: nothing stored yet
Init == StartedOn(EmptyStorage)

\* A visit that finds the slot as an earlier session, another version of the
\* page or the user left it.
SampleLists ==
    LET a == NewTask(uid("k", 1), <<"a">>, 1) IN
    { <<>>, <<a>>, <<Spread(a, TogglePatch(TRUE, 1))>> }

SlotSamples ==
    { <<>>,                      \* the empty string
      <<"{", "oops">>,           \* not JSON
      <<"{", "}">>,              \* {}
      <<"1">>,                   \* a number
      JSONstring(<<"a">>),       \* a string
      <<"null">>,
      <<"true">> }
    \cup { JSONstringify(list) : list \in SampleLists }

InitAnySlot ==
    \E st \in {EmptyStorage} \cup { setItem(EmptyStorage, STORAGE_KEY, raw) : raw \in SlotSamples } :
        StartedOn(st)

\* the page is loaded again: the script runs from the top against the same storage
Reload ==
    LET s == Startup(storage) IN
    /\ tasks' = s.tasks
    /\ tasksKind' = s.tasksKind
    /\ dom' = s.dom
    /\ counts' = s.counts
    /\ last' = s.last
    /\ UNCHANGED <<storage, quotaFull, now, failures, tab2>>

---------------------------------------------------------------------------
(* saveTasks(); render() and updateTask(id, patch) *)

\* mutant of SaveAndRender: saveTasks() is not called before render()
RenderUnsaved(newTasks, ev, staleDom) ==
    /\ tasks' = newTasks
    /\ tasksKind' = "array"
    /\ counts' = updateCounts(newTasks)
    /\ dom' = render(newTasks)
    /\ last' = [ev EXCEPT !.outcome = "ok"]
    /\ UNCHANGED <<storage, quotaFull, now, failures, tab2>>

\* mutant of SaveAndRender: saveTasks() keeps the tasks of the slot whose ids
\* the list does not have (a merge with what another tab wrote)
SaveMergedAndRender(newTasks, ev, staleDom) ==
    LET others == SelectSeq(loadTasks(storage).val,
                            LAMBDA t : \A i \in 1..Len(newTasks) : newTasks[i].id # t.id)
    IN /\ tasks' = newTasks
       /\ tasksKind' = "array"
       /\ storage' = setItem(storage, STORAGE_KEY, JSONstringify(newTasks \o others))
       /\ counts' = updateCounts(newTasks)
       /\ dom' = render(newTasks)
       /\ last' = [ev EXCEPT !.outcome = "ok"]
       /\ UNCHANGED <<quotaFull, now, failures, tab2>>

\* The tail of every mutating handler, tasks already being newTasks:
\* saveTasks() writes the slot and updates the counts, render() repaints.
\* When setItem throws, the handler ends there: the slot, the counts and the
\* lists stay as they were (staleDom is the lists as the event left them).
SaveAndRender(newTasks, ev, staleDom) ==
    /\ tasks' = newTasks
    /\ tasksKind' = "array"
    /\ quotaFull => failures < MaxFails
    /\ IF quotaFull
       THEN /\ storage' = storage
            /\ failures' = failures + 1
            /\ counts' = counts
            /\ dom' = staleDom
            /\ last' = [ev EXCEPT !.outcome = "QuotaExceededError"]
       ELSE /\ storage' = setItem(storage, STORAGE_KEY, JSONstringify(newTasks))
            /\ counts' = updateCounts(newTasks)
            /\ dom' = render(newTasks)
            /\ last' = [ev EXCEPT !.outcome = "ok"]
            /\ failures' = failures
    /\ UNCHANGED <<quotaFull, now, tab2>>

\* mutant of updateTask: the updated task is taken out and put back in front
updateTaskToFront(id, patch, ev, staleDom) ==
    LET idx == findIndex(tasks, id) IN
    IF idx = 0
    THEN /\ dom' = staleDom
         /\ last' = [ev EXCEPT !.outcome = "return"]
         /\ UNCHANGED <<tasks, tasksKind, storage, counts, quotaFull, now, failures, tab2>>
    ELSE SaveAndRender(<<Spread(tasks[idx], patch)>>
                       \o SubSeq(tasks, 1, idx - 1) \o SubSeq(tasks, idx + 1, Len(tasks)),
                       ev, staleDom)

\* updateTask(id, patch)
updateTask(id, patch, ev, staleDom) ==
    LET idx == findIndex(tasks, id) IN
    IF idx = 0
    THEN /\ dom' = staleDom
         /\ last' = [ev EXCEPT !.outcome = "return"]
         /\ UNCHANGED <<tasks, tasksKind, storage, counts, quotaFull, now, failures, tab2>>
    ELSE SaveAndRender([tasks EXCEPT ![idx] = Spread(tasks[idx], patch)], ev, staleDom)

---------------------------------------------------------------------------
(* Event handlers *)

\* task-form submit
Submit(input) ==
    /\ tasksKind = "array" => Len(tasks) < MaxTasks
    /\ LET text == Trim(input) IN
       IF text = <<>>
       THEN /\ last' = Event("submit", "return", NoId, input)
            /\ UNCHANGED <<tasks, tasksKind, storage, quotaFull, dom, counts, now, failures, tab2>>
       ELSE IF tasksKind # "array"
       THEN \* tasks.unshift is not a function
            /\ last' = Event("submit", "TypeError", NoId, input)
            /\ UNCHANGED <<tasks, tasksKind, storage, quotaFull, dom, counts, now, failures, tab2>>
       ELSE \E rnd \in RandomDraws :
            LET t == NewTask(uid(rnd, now), text, now) IN
            SaveAndRender(Unshift(tasks, t), Event("submit", "ok", t.id, input), dom)

\* the checkbox of item i of a list changes
Toggle(list, i) ==
    /\ i \in 1..Len(dom[list])
    /\ LET item == dom[list][i]
           checked == ~item.checked
           flipped == [dom EXCEPT ![list][i].checked = checked]
       IN updateTask(item.task.id, TogglePatch(checked, now),
                     ToggleEvent(item.task.id, checked), flipped)

\* mutant of CommitEdit: the `if (!newText)` check is missing
CommitEditUnchecked(list, i, input) ==
    /\ i \in 1..Len(dom[list])
    /\ LET id == dom[list][i].task.id
           newText == Trim(input)
       IN updateTask(id, TextPatch(newText), Event("edit", "ok", id, input), dom)

\* Save or Enter on item i of a list, the edit box holding input
CommitEdit(list, i, input) ==
    /\ i \in 1..Len(dom[list])
    /\ LET id == dom[list][i].task.id
           newText == Trim(input)
       IN IF newText = <<>>
          THEN /\ last' = Event("edit", "alert", id, input)
               /\ UNCHANGED <<tasks, tasksKind, storage, quotaFull, dom, counts, now, failures, tab2>>
          ELSE updateTask(id, TextPatch(newText), Event("edit", "ok", id, input), dom)

\* Delete on item i of a list, the confirm() answered
DeleteClick(list, i, confirmed) ==
    /\ i \in 1..Len(dom[list])
    /\ LET id == dom[list][i].task.id IN
       IF ~confirmed
       THEN /\ last' = Event("delete", "declined", id, NoInput)
            /\ UNCHANGED <<tasks, tasksKind, storage, quotaFull, dom, counts, now, failures, tab2>>
       ELSE SaveAndRender(RemoveId(tasks, id), Event("delete", "ok", id, NoInput), dom)

\* clear-all click, the confirm() answered
ClearAll(confirmed) ==
    IF tasksKind = "null"
    THEN \* tasks.length of null
         /\ last' = Event("clear", "TypeError", NoId, NoInput)
         /\ UNCHANGED <<tasks, tasksKind, storage, quotaFull, dom, counts, now, failures, tab2>>
    ELSE IF tasksKind \notin {"array", "string"} \/ Len(tasks) = 0
    THEN /\ last' = Event("clear", "return", NoId, NoInput)
         /\ UNCHANGED <<tasks, tasksKind, storage, quotaFull, dom, counts, now, failures, tab2>>
    ELSE IF ~confirmed
    THEN /\ last' = Event("clear", "declined", NoId, NoInput)
         /\ UNCHANGED <<tasks, tasksKind, storage, quotaFull, dom, counts, now, failures, tab2>>
    ELSE SaveAndRender(<<>>, Event("clear", "ok", NoId, NoInput), dom)

\* the file the Export button hands to the browser: the text of the Blob and
\* the name in the link's download attribute
ExportedFile ==
    [text |-> IF tasksKind = "array" THEN JSONstringifyIndented(tasks)
              ELSE IF tasksKind = "string" THEN JSONstring(tasks)
              ELSE storage[STORAGE_KEY],  \* a number, true, null or {}: the text it was parsed from
     download |-> <<"tasks-", ToString(now), ".json">>]

\* mutant of Export: the list is put oldest-first in place before it is written out
ExportReversed ==
    /\ tasks' = [i \in 1..Len(tasks) |-> tasks[Len(tasks) + 1 - i]]
    /\ last' = Event("export", "ok", NoId, NoInput) @@ [file |-> ExportedFile]
    /\ UNCHANGED <<tasksKind, storage, quotaFull, dom, counts, now, failures, tab2>>

\* export-json click
Export ==
    /\ last' = Event("export", "ok", NoId, NoInput) @@ [file |-> ExportedFile]
    /\ UNCHANGED <<tasks, tasksKind, storage, quotaFull, dom, counts, now, failures, tab2>>

---------------------------------------------------------------------------
(* Environment *)

Tick ==
    /\ now < MaxTime
    /\ now' = now + 1
    /\ last' = Event("tick", "ok", NoId, NoInput)
    /\ UNCHANGED <<tasks, tasksKind, storage, quotaFull, dom, counts, failures, tab2>>

\* the origin's storage quota is used up, or is freed again
StorageFills ==
    /\ ~quotaFull
    /\ failures < MaxFails
    /\ quotaFull' = TRUE
    /\ last' = Event("quota", "ok", NoId, NoInput)
    /\ UNCHANGED <<tasks, tasksKind, storage, dom, counts, now, failures, tab2>>

StorageFrees ==
    /\ quotaFull
    /\ quotaFull' = FALSE
    /\ last' = Event("quota", "ok", NoId, NoInput)
    /\ UNCHANGED <<tasks, tasksKind, storage, dom, counts, now, failures, tab2>>

---------------------------------------------------------------------------
(* A second tab on the same origin: the same script with its own `tasks`,
   sharing localStorage.  Handlers of the two tabs run one at a time; its
   storage writes succeed, so its lists on screen are those of its tasks. *)

\* what is typed into the second tab's form
Tab2Inputs == { <<" ">>, <<"a", "a">> }

Tab2Event(handler, outcome) ==
    [op |-> "tab2", outcome |-> outcome, id |-> NoId, known |-> FALSE, input |-> NoInput,
     handler |-> handler]

\* the second tab is opened, or loaded again: tasks = loadTasks()
Tab2Loads ==
    /\ loadTasks(storage).kind = "array"
    /\ tab2' = [open |-> TRUE, tasks |-> loadTasks(storage).val]
    /\ last' = Tab2Event("load", "ok")
    /\ UNCHANGED <<tasks, tasksKind, storage, quotaFull, dom, counts, now, failures>>

Tab2Returns(handler, outcome) ==
    /\ last' = Tab2Event(handler, outcome)
    /\ UNCHANGED <<tasks, tasksKind, storage, quotaFull, dom, counts, now, failures, tab2>>

\* saveTasks() in the second tab
Tab2Saves(newTasks, handler) ==
    /\ ~quotaFull
    /\ tab2' = [tab2 EXCEPT !.tasks = newTasks]
    /\ storage' = setItem(storage, STORAGE_KEY, JSONstringify(newTasks))
    /\ last' = Tab2Event(handler, "ok")
    /\ UNCHANGED <<tasks, tasksKind, quotaFull, dom, counts, now, failures>>

Tab2Submit(input) ==
    /\ tab2.open
    /\ Len(tab2.tasks) < MaxTasks
    /\ LET text == Trim(input) IN
       IF text = <<>>
       THEN Tab2Returns("submit", "return")
       ELSE \E rnd \in RandomDraws :
            Tab2Saves(Unshift(tab2.tasks, NewTask(uid(rnd, now), text, now)), "submit")

Tab2Toggle(i) ==
    /\ tab2.open
    /\ i \in 1..Len(tab2.tasks)
    /\ LET idx == findIndex(tab2.tasks, tab2.tasks[i].id)
           patch == TogglePatch(~tab2.tasks[i].completed, now)
       IN Tab2Saves([tab2.tasks EXCEPT ![idx] = Spread(tab2.tasks[idx], patch)], "toggle")

Tab2Delete(i, confirmed) ==
    /\ tab2.open
    /\ i \in 1..Len(tab2.tasks)
    /\ IF confirmed
       THEN Tab2Saves(RemoveId(tab2.tasks, tab2.tasks[i].id), "delete")
       ELSE Tab2Returns("delete", "declined")

Tab2ClearAll(confirmed) ==
    /\ tab2.open
    /\ IF Len(tab2.tasks) = 0 THEN Tab2Returns("clear", "return")
       ELSE IF confirmed THEN Tab2Saves(<<>>, "clear")
       ELSE Tab2Returns("clear", "declined")

---------------------------------------------------------------------------
(* Specifications *)

Next ==
    \/ \E input \in Inputs : Submit(input)
    \/ \E list \in Lists, i \in 1..MaxTasks : Toggle(list, i)
    \/ \E list \in Lists, i \in 1..MaxTasks, input \in Inputs : CommitEdit(list, i, input)
    \/ \E list \in Lists, i \in 1..MaxTasks, confirmed \in BOOLEAN : DeleteClick(list, i, confirmed)
    \/ \E confirmed \in BOOLEAN : ClearAll(confirmed)
    \/ Export
    \/ Reload
    \/ Tick

\* storage writes never fail
Spec == Init /\ [][Next]_vars

NextQuota == Next \/ StorageFills \/ StorageFrees

\* storage writes fail while the quota is used up
SpecQuota == Init /\ [][NextQuota]_vars

\* the first visit of the model finds any of the sampled slots
SpecAnySlot == InitAnySlot /\ [][Next]_vars

\* what is typed into the first tab while the second is about
Tab1Inputs == { <<" ">>, <<"a">> }

NextTabs ==
    \/ \E input \in Tab1Inputs : Submit(input)
    \/ \E list \in Lists, i \in 1..MaxTasks : Toggle(list, i)
    \/ \E list \in Lists, i \in 1..MaxTasks, input \in Tab1Inputs : CommitEdit(list, i, input)
    \/ \E list \in Lists, i \in 1..MaxTasks, confirmed \in BOOLEAN : DeleteClick(list, i, confirmed)
    \/ \E confirmed \in BOOLEAN : ClearAll(confirmed)
    \/ Export
    \/ Reload
    \/ Tick
    \/ Tab2Loads
    \/ \E input \in Tab2Inputs : Tab2Submit(input)
    \/ \E i \in 1..MaxTasks : Tab2Toggle(i)
    \/ \E i \in 1..MaxTasks, confirmed \in BOOLEAN : Tab2Delete(i, confirmed)
    \/ \E confirmed \in BOOLEAN : Tab2ClearAll(confirmed)

\* two tabs share the slot; storage writes never fail
SpecTabs == Init /\ [][NextTabs]_vars

---------------------------------------------------------------------------
(* Vocabulary of the properties, stated without the operators of the model *)

WhitespaceOnly(s) == \A i \in 1..Len(s) : s[i] = " "

\* r is s without its leading and trailing whitespace
IsTrimOf(r, s) ==
    \E a, b \in 0..Len(s) :
        /\ a + b <= Len(s)
        /\ r = SubSeq(s, a + 1, Len(s) - b)
        /\ \A i \in 1..a : s[i] = " "
        /\ \A i \in (Len(s) - b + 1)..Len(s) : s[i] = " "
        /\ r # <<>> => r[1] # " " /\ r[Len(r)] # " "

\* i is the first position of list whose task has this id
IsFirstWithId(list, i, id) ==
    /\ list[i].id = id
    /\ \A j \in 1..(i - 1) : list[j].id # id

HasId(list, id) == \E i \in 1..Len(list) : list[i].id = id

\* a is b with some elements left out, the others in b's order
RECURSIVE IsSubsequence(_, _)
IsSubsequence(a, b) ==
    IF a = <<>> THEN TRUE
    ELSE IF b = <<>> THEN FALSE
    ELSE IF Head(a) = Head(b) THEN IsSubsequence(Tail(a), Tail(b))
    ELSE IsSubsequence(a, Tail(b))

TasksShown(items) == [i \in 1..Len(items) |-> items[i].task]

MutatingOps == {"submit", "toggle", "edit", "delete", "clear"}

TaskFields == {"id", "text", "createdAt", "completed", "completedAt"}

\* the slot holds the JSON text of an array of task records
HoldsTaskList(st) ==
    /\ STORAGE_KEY \in DOMAIN st
    /\ LET r == JSONparse(st[STORAGE_KEY]) IN
       /\ r.ok
       /\ r.type = "array"
       /\ \A i \in 1..Len(r.val) : DOMAIN r.val[i] = TaskFields

---------------------------------------------------------------------------
(* Properties *)

\* C1: from an empty store, whatever is added, toggled, edited, deleted or
\* cleared, every task of the list has a completedAt other than null exactly
\* when its completed flag is true.
C1_CompletedAtIffCompleted ==
    \A i \in 1..Len(tasks) : (tasks[i].completedAt # NULL) <=> tasks[i].completed

\* C1 witness: a toggle has just completed a task, which now carries its time.
C1_Witness ==
    /\ last.op = "toggle"
    /\ last.outcome = "ok"
    /\ \E i \in 1..Len(tasks) :
        tasks[i].id = last.id /\ tasks[i].completed /\ tasks[i].completedAt # NULL

\* C2: when a mutating handler (add, toggle, edit, delete, clear-all) has run
\* to completion, the slot's text parses to exactly the in-memory list: the
\* same tasks with the same field values in the same order.
C2_SlotMirrorsTasks ==
    (last.op \in MutatingOps /\ last.outcome = "ok") =>
        /\ STORAGE_KEY \in DOMAIN storage
        /\ LET r == JSONparse(storage[STORAGE_KEY]) IN
           r.ok /\ r.type = "array" /\ r.val = tasks

\* C2 witness: a toggle ran to completion on a list of two tasks, one of them
\* completed, and the slot holds that list.
C2_Witness ==
    /\ last.op = "toggle"
    /\ last.outcome = "ok"
    /\ Len(tasks) = 2
    /\ \E i \in 1..2 : tasks[i].completed
    /\ JSONparse(storage[STORAGE_KEY]).val = tasks

\* C3: a submit whose text is not blank makes the list one longer; the new
\* task, not completed and with no completedAt, is its first element and the
\* tasks there were follow it unchanged and in their order.
C3_AddPrepends ==
    [][ (last'.op = "submit" /\ ~WhitespaceOnly(last'.input)) =>
            /\ Len(tasks') = Len(tasks) + 1
            /\ tasks'[1].completed = FALSE
            /\ tasks'[1].completedAt = NULL
            /\ SubSeq(tasks', 2, Len(tasks')) = tasks ]_vars

\* C3 witness: a task was added in front of an older one created earlier.
C3_Witness ==
    /\ last.op = "submit"
    /\ last.outcome = "ok"
    /\ Len(tasks) = 2
    /\ tasks[1].id = last.id
    /\ tasks[1].createdAt > tasks[2].createdAt

\* C4 as claimed: a submit with empty or whitespace-only text raises
\* ValidationError and leaves the list and the slot unchanged.
C4_BlankAddRaises ==
    [][ (last'.op = "submit" /\ WhitespaceOnly(last'.input)) =>
            /\ last'.outcome = "ValidationError"
            /\ UNCHANGED <<tasks, storage>> ]_vars

\* C4 as amended: a submit with empty or whitespace-only text returns without
\* raising or reporting anything, and leaves the list and the slot unchanged.
C4_BlankAddIgnored ==
    [][ (last'.op = "submit" /\ WhitespaceOnly(last'.input)) =>
            /\ last'.outcome = "return"
            /\ UNCHANGED <<tasks, storage, dom, counts>> ]_vars

\* C4 witness: whitespace was submitted to a list that holds a task.
C4_Witness ==
    /\ last.op = "submit"
    /\ last.input # <<>>
    /\ WhitespaceOnly(last.input)
    /\ tasks # <<>>

\* an event that calls updateTask(id, patch)
CallsUpdate(ev) ==
    ev.op = "toggle" \/ (ev.op = "edit" /\ ~WhitespaceOnly(ev.input))

\* C5 as claimed: updateTask with an id no task of the list has raises
\* NotFoundError and leaves the list unchanged.
C5_UnknownUpdateRaises ==
    [][ (CallsUpdate(last') /\ ~HasId(tasks, last'.id)) =>
            /\ last'.outcome = "NotFoundError"
            /\ tasks' = tasks ]_vars

\* C5 as amended: updateTask with an id no task of the list has returns
\* without raising anything, and leaves the list (and the slot) unchanged.
C5_UnknownUpdateIgnored ==
    [][ (CallsUpdate(last') /\ ~HasId(tasks, last'.id)) =>
            /\ last'.outcome = "return"
            /\ UNCHANGED <<tasks, storage>> ]_vars

\* C5 witness: the checkbox of an item still on screen was changed after its
\* task had left a list that holds other tasks.
C5_Witness ==
    /\ last.op = "toggle"
    /\ ~last.known
    /\ tasks # <<>>

\* C6: an edit whose new text trims to empty is refused with the message
\* "Task cannot be empty." and leaves the list unchanged; any other edit of a
\* task of the list stores the new text without its leading and trailing
\* whitespace.
C6_EditValidatesAndTrims ==
    [][ last'.op = "edit" =>
            IF WhitespaceOnly(last'.input)
            THEN last'.outcome = "alert" /\ UNCHANGED <<tasks, storage>>
            ELSE \A i \in 1..Len(tasks) :
                    IsFirstWithId(tasks, i, last'.id) =>
                        /\ Len(tasks') = Len(tasks)
                        /\ IsTrimOf(tasks'[i].text, last'.input) ]_vars

\* C6 witness: an edit typed with a leading space was stored without it.
C6_Witness ==
    /\ last.op = "edit"
    /\ last.known
    /\ last.input = <<" ", "a">>
    /\ \E i \in 1..Len(tasks) : tasks[i].id = last.id /\ tasks[i].text = <<"a">>

\* a confirmed Delete on an item whose id no task of the list has
DeletesUnknown(ev) == ev.op = "delete" /\ ev.outcome # "declined"

C8_BadSlotLoadsEmpty ==
    (last.op = "load" /\ ~HoldsTaskList(storage)) =>
        /\ last.outcome = "ok"
        /\ tasksKind = "array"
        /\ tasks = <<>>

\* C9: every list the handlers can produce survives the round trip: written to
\* the slot of a fresh store and loaded from it, it comes back as an array
\* with equal tasks (id, text, createdAt, completed, completedAt) in the same
\* order.
C9_RoundTrip ==
    LET fresh == Startup(setItem(EmptyStorage, STORAGE_KEY, JSONstringify(tasks))) IN
    /\ fresh.tasksKind = "array"
    /\ fresh.tasks = tasks

\* C9 witness: the page was loaded again on a slot holding a pending and a
\* completed task.
C9_Witness ==
    /\ last.op = "load"
    /\ Len(tasks) = 2
    /\ \E i, j \in 1..2 : tasks[i].completed /\ ~tasks[j].completed

C11_OffThenOnRestamps ==
    [][ ( /\ last.op = "toggle" /\ last.outcome = "ok"
          /\ ~last.checked /\ last.was # NoStamp /\ last.was.completed
          /\ last'.op = "toggle" /\ last'.outcome = "ok"
          /\ last'.id = last.id /\ last'.checked ) =>
            \A i \in 1..Len(tasks) :
                IsFirstWithId(tasks, i, last.id) =>
                    /\ tasks[i].completed = FALSE
                    /\ tasks[i].completedAt = NULL
                    /\ tasks'[i].completed = TRUE
                    /\ tasks'[i].completedAt # NULL
                    /\ tasks'[i].completedAt = now
                    /\ tasks'[i].completedAt >= last.was.completedAt ]_vars

\* C11 witness: a task completed at one time was taken off and put on again
\* at a later time, and carries the later time.
C11_Witness ==
    /\ last.op = "toggle" /\ last.outcome = "ok" /\ last.checked
    /\ last.earlier # NoStamp /\ last.earlier.completed
    /\ last.was = [completed |-> FALSE, completedAt |-> NULL]
    /\ \E i \in 1..Len(tasks) :
        /\ IsFirstWithId(tasks, i, last.id)
        /\ tasks[i].completed
        /\ tasks[i].completedAt > last.earlier.completedAt

\* C12 as claimed: from any state a clear-all click never ends in an error;
\* unless the user declines the confirmation, it leaves the list empty, the
\* counts at total 0, pending 0, completed 0 and a slot that loads as the
\* empty list.  On a list that is empty already it changes nothing.
C12_ClearEmptiesAll ==
    [][ last'.op = "clear" =>
            /\ last'.outcome \in {"ok", "return", "declined"}
            /\ last'.outcome = "declined" => tasks # <<>> /\ UNCHANGED <<tasks, storage>>
            /\ last'.outcome = "return" => tasks = <<>> /\ UNCHANGED <<tasks, storage, dom, counts>>
            /\ last'.outcome # "declined" =>
                /\ tasksKind' = "array"
                /\ tasks' = <<>>
                /\ counts' = [total |-> 0, pending |-> 0, completed |-> 0]
                /\ \/ STORAGE_KEY \notin DOMAIN storage'
                   \/ storage'[STORAGE_KEY] = <<>>
                   \/ LET r == JSONparse(storage'[STORAGE_KEY]) IN
                      r.ok /\ r.type = "array" /\ r.val = <<>> ]_vars

\* C13 as claimed: no two tasks of the list ever have the same id, and an id
\* is not given to a new task after the task that had it was deleted (stated
\* for the id that the preceding event deleted).
C13_IdsUniqueNeverReused ==
    [][ /\ \A i, j \in 1..Len(tasks') : i # j => tasks'[i].id # tasks'[j].id
        /\ ~ ( /\ last.op = "delete" /\ last.outcome = "ok" /\ last.known
               /\ last'.op = "submit" /\ last'.outcome = "ok"
               /\ last'.id = last.id ) ]_vars

\* C14: from an empty store, whatever texts are submitted to the form or to
\* an edit box (empty and whitespace-only ones included), no task of the list
\* has a text that is empty or whitespace-only.
C14_NoBlankText ==
    \A i \in 1..Len(tasks) : ~WhitespaceOnly(tasks[i].text)

\* C14 witness: whitespace was typed into the edit box of a task of a list
\* that an add and an edit with padded text have built.
C14_Witness ==
    /\ last.op = "edit"
    /\ last.input = <<" ", " ">>
    /\ last.known
    /\ Len(tasks) = 2
    /\ \E i \in 1..2 : tasks[i].id = last.id /\ tasks[i].text = <<"a", "a">>

\* C15: an export changes neither the in-memory task list nor the content of
\* the slot, whatever state the page is in; the file it writes is the list
\* as it stands.
C15_ExportMutatesNothing ==
    [][ last'.op = "export" =>
            /\ UNCHANGED <<tasks, tasksKind, storage>>
            /\ tasksKind = "array" =>
                LET r == JSONparse(SelectSeq(last'.file.text, LAMBDA c : c \notin {"\n", " "})) IN
                r.ok /\ r.type = "array" /\ r.val = tasks ]_vars

\* C15 witness: a list of two tasks, one completed, was exported; the file
\* starts on a line of its own and the slot holds the same list.
C15_Witness ==
    /\ last.op = "export"
    /\ Len(tasks) = 2
    /\ tasks[1] # tasks[2]
    /\ \E i \in 1..2 : tasks[i].completed
    /\ SubSeq(last.file.text, 1, 5) = <<"[", "\n", " ", " ", "{">>
    /\ JSONparse(storage[STORAGE_KEY]).val = tasks

\* C16: a toggle or an edit that updates a task leaves the list as long as it
\* was and every task where it was; the updated task keeps its id and its
\* createdAt and every other task keeps all its fields; an edit also leaves
\* completed and completedAt of the edited task as they were.
C16_UpdateFrame ==
    [][ (CallsUpdate(last') /\ last'.outcome = "ok") =>
            /\ Len(tasks') = Len(tasks)
            /\ \E idx \in 1..Len(tasks) :
                /\ IsFirstWithId(tasks, idx, last'.id)
                /\ tasks'[idx].id = tasks[idx].id
                /\ tasks'[idx].createdAt = tasks[idx].createdAt
                /\ \A j \in 1..Len(tasks) : j # idx => tasks'[j] = tasks[j]
                /\ last'.op = "edit" =>
                    /\ tasks'[idx].completed = tasks[idx].completed
                    /\ tasks'[idx].completedAt = tasks[idx].completedAt
                /\ last'.op = "toggle" => tasks'[idx].text = tasks[idx].text ]_vars

\* C16 witness: the text of the second task of the list, a completed one
\* behind a task with another id, was edited.
C16_Witness ==
    /\ last.op = "edit"
    /\ last.outcome = "ok"
    /\ Len(tasks) = 2
    /\ tasks[2].id = last.id
    /\ tasks[1].id # last.id
    /\ tasks[2].completed
    /\ tasks[2].text = <<"a", "a">>
    /\ tasks[2].createdAt < tasks[2].completedAt

\* C17 as claimed: a confirmed Delete on an item whose id a task of the list
\* has removes exactly one task, the one with that id: the list gets one
\* shorter and the other tasks stay, unchanged and in their order.
C17_DeleteRemovesOne ==
    [][ (last'.op = "delete" /\ last'.outcome = "ok" /\ HasId(tasks, last'.id)) =>
            \E k \in 1..Len(tasks) :
                /\ tasks[k].id = last'.id
                /\ Len(tasks') = Len(tasks) - 1
                /\ tasks' = SubSeq(tasks, 1, k - 1) \o SubSeq(tasks, k + 1, Len(tasks)) ]_vars

\* the ids and creation times of a list, in its order
CreationOrder(list) == [i \in 1..Len(list) |-> <<list[i].id, list[i].createdAt>>]

\* C18: from an empty store the list is always newest first: createdAt never
\* increases from the head to the tail (the clock does not go backwards), and
\* a toggle, an edit or a delete leaves the tasks that stay in the order they
\* had.
C18_NewestFirst ==
    [][ /\ \A i, j \in 1..Len(tasks') : i < j => tasks'[i].createdAt >= tasks'[j].createdAt
        /\ last'.op \in {"toggle", "edit", "delete"} =>
            IsSubsequence(CreationOrder(tasks'), CreationOrder(tasks)) ]_vars

\* C18 witness: the older of two tasks added at different times was
\* completed, and is still behind the newer one.
C18_Witness ==
    /\ last.op = "toggle"
    /\ last.outcome = "ok"
    /\ Len(tasks) = 2
    /\ tasks[1].createdAt > tasks[2].createdAt
    /\ tasks[2].id = last.id
    /\ tasks[2].completed

\* C19 as claimed: once a handler that changes the task list (add, toggle,
\* edit, delete, clear-all) has ended, the pending list shows the pending
\* tasks of the list and the completed list its completed tasks, in the
\* list's order, the counts are those of the list, and every item on screen
\* has the id of a task of the list.
C19_ViewNeverStale ==
    (last.op \in MutatingOps /\ last.outcome \notin {"return", "alert", "declined"}) =>
        /\ TasksShown(dom.pending) = SelectSeq(tasks, LAMBDA t : ~t.completed)
        /\ TasksShown(dom.completed) = SelectSeq(tasks, LAMBDA t : t.completed)
        /\ counts = [total |-> Len(tasks),
                     pending |-> Len(SelectSeq(tasks, LAMBDA t : ~t.completed)),
                     completed |-> Len(SelectSeq(tasks, LAMBDA t : t.completed))]
        /\ \A list \in Lists : \A i \in 1..Len(dom[list]) :
            /\ HasId(tasks, dom[list][i].task.id)
            /\ dom[list][i].checked = dom[list][i].task.completed

\* the slot holds the JSON text of exactly this list
SlotHolds(st, list) ==
    /\ STORAGE_KEY \in DOMAIN st
    /\ LET r == JSONparse(st[STORAGE_KEY]) IN r.ok /\ r.type = "array" /\ r.val = list

\* C20: with two tabs on one slot, a tab takes nothing from the slot except
\* when it is loaded, and every mutation writes the slot as the whole list of
\* the tab that made it: a handler of one tab leaves the other tab's list as
\* it was, the slot changes only in a mutation and then holds the list of the
\* tab that mutated, and a tab's new list is made of its own old list (and
\* the task it adds), whatever the other tab has written since.
C20_LastWriterWins ==
    [][ /\ last'.op = "tab2" =>
            /\ UNCHANGED <<tasks, dom, counts>>
            /\ storage' # storage => SlotHolds(storage', tab2'.tasks)
            /\ last'.handler # "load" =>
                \A i \in 1..Len(tab2'.tasks) :
                    HasId(tab2.tasks, tab2'.tasks[i].id) \/ (last'.handler = "submit" /\ i = 1)
        /\ last'.op # "tab2" => tab2' = tab2
        /\ (last'.op \in MutatingOps /\ last'.outcome = "ok") =>
            /\ SlotHolds(storage', tasks')
            /\ \A i \in 1..Len(tasks') :
                HasId(tasks, tasks'[i].id) \/ (last'.op = "submit" /\ i = 1)
        /\ (last'.op \notin {"tab2"} /\ ~(last'.op \in MutatingOps /\ last'.outcome = "ok")) =>
            storage' = storage ]_vars

\* C20 witness: the second tab had added a task and written it to the slot;
\* the first tab, loaded before that, then added one of its own, and the slot
\* now holds the first tab's list, without the second tab's task.
C20_Witness ==
    /\ last.op = "submit"
    /\ last.outcome = "ok"
    /\ tab2.open
    /\ \E i \in 1..Len(tab2.tasks) : tab2.tasks[i].text = <<"a", "a">>
    /\ \A i \in 1..Len(tasks) : tasks[i].text # <<"a", "a">>
    /\ SlotHolds(storage, tasks)

====
